---- MODULE Spec2Model ----
(***************************************************************************)
(* Model of src/src/action.ts: the run() loop that polls the Cloudflare    *)
(* Pages deployment list until a terminal stage, reflects the status into  *)
(* GitHub deployments (updateDeployment) and sends Slack notifications.    *)
(*                                                                         *)
(* run() is an async function: every segment between two awaits is one     *)
(* atomic action; pc names the await the run is suspended at.              *)
(***************************************************************************)
EXTENDS Integers, Sequences, FiniteSets, TLC

\* ------------------------------------------------------------------ bounds
\* cap on the number of pollApi calls of one run (the loop itself is unbounded)
MaxPolls == 2
\* cap on the length of the deployment list one poll returns
MaxResults == 2
\* cap on the number of log lines the history/logs endpoint returns
MaxLogLines == 22

\* ------------------------------------------------------- program constants
\* logs.slice(-20)
LogTail == 20

\* ------------------------------------------------------------ input values
\* <<apiToken, accountEmail, apiKey>>: nothing, one half of the pair, the token,
\* the pair, and the token together with the pair
AuthInputs == { <<"", "", "">>, <<"", "mail", "">>, <<"tok", "", "">>,
                <<"", "mail", "key">>, <<"tok", "mail", "key">> }
Commits == {"c1", "c2"}
StageNames == {"queued", "deploy"}
Statuses == {"active", "success", "failed", "failure"}
ErrorLists == {<<>>, <<"e1">>, <<"e1", "e2">>}

\* A Deployment of the platform API (types.ts): the fields run() reads.
MkDeployment(commit, name, status, aliases, skipped) ==
    [ id            |-> IF commit = "c1" THEN "d1" ELSE "d2",
      commit_hash   |-> commit,
      environment   |-> IF commit = "c1" THEN "production" ELSE "preview",
      url           |-> IF commit = "c1" THEN "u1" ELSE "u2",
      aliases       |-> aliases,
      is_skipped    |-> skipped,
      latest_stage  |-> [name |-> name, status |-> status] ]

\* The deployments a poll may list. For commit c1: every stage name and status;
\* alias lists vary on the finished deploy stage, the only place they are read;
\* skipped deployments at a running and at a failed stage. For commit c2, the
\* commit a commitHash of c1 filters out: a running and a finished deployment.
Deployments ==
    { MkDeployment("c1", n, s, <<>>, FALSE) : n \in StageNames, s \in Statuses }
    \cup { MkDeployment("c1", "deploy", "success", <<"a1", "a2">>, FALSE),
           MkDeployment("c1", "queued", "active", <<>>, TRUE),
           MkDeployment("c1", "deploy", "failed", <<>>, TRUE),
           MkDeployment("c2", "queued", "active", <<>>, FALSE),
           MkDeployment("c2", "deploy", "success", <<>>, FALSE) }

ResultLists == UNION { [1..n -> Deployments] : n \in 0..MaxResults }

\* Outcomes of the history/logs request: the fetch throws, a non-2xx status,
\* a body that is no JSON, a body without result.data lines, or n log lines.
LogOutcomes ==
    { [kind |-> k, n |-> 0] : k \in {"throw", "notOk", "badJson", "noData"} }
    \cup { [kind |-> "data", n |-> n] : n \in {1, LogTail, MaxLogLines} }

\* ------------------------------------------------------------------- state
VARIABLES
    waiting,            \* module-level loop flag (line 9)
    ghDeployment,       \* module-level GitHub deployment id, 0 = undefined (line 11)
    markedAsInProgress, \* module-level one-shot guard (line 12)
    apiToken, accountEmail, apiKey,   \* auth inputs (lines 15-17)
    token, commitHash, slackWebHook,  \* githubToken, commitHash, slackWebHook inputs
    pc,                 \* where run() is suspended
    lastStage,          \* local lastStage (line 37)
    deployment,         \* local deployment of the current iteration: <<>> or <<d>>
    pollLog,            \* the outcome of each pollApi call, in order; an undefined
                        \* result is "absent" for an empty list, "filtered" otherwise
    apiErrors,          \* body.errors of the response that reported success = false
    stageLog,           \* the "# Now at stage: " lines logged (line 60), in order
    failedMsgs,         \* the core.setFailed calls, in order
    outputs,            \* the core.setOutput calls, in order
    slackSends,         \* the slack.send calls, in order, with their settlement
    updCalls,           \* the updateDeployment calls, in order
    ghCalls             \* the octokit requests, in order

vars == << waiting, ghDeployment, markedAsInProgress, apiToken, accountEmail, apiKey,
           token, commitHash, slackWebHook, pc, lastStage, deployment, pollLog,
           apiErrors, stageLog, failedMsgs, outputs, slackSends, updCalls, ghCalls >>

inputs == << apiToken, accountEmail, apiKey, token, commitHash, slackWebHook >>

\* --------------------------------------------------------- pure functions
\* Faulty variant of validateAuthInputs: the key of the pair is not checked.
validateAuthInputsEmailOnly(tok, email, key) ==
    IF tok # "" THEN TRUE
    ELSE IF email # "" THEN TRUE
    ELSE FALSE

\* validateAuthInputs (lines 164-175): its boolean result.
validateAuthInputs(tok, email, key) ==
    IF tok # "" THEN TRUE
    ELSE IF email # "" /\ key # "" THEN TRUE
    ELSE FALSE

\* Faulty variant of SelectDeployment: the commit filter is ignored.
SelectDeploymentNewest(list, hash) == IF list = <<>> THEN <<>> ELSE << Head(list) >>

\* body.result?.[0] / body.result?.find?.(...) (lines 221-222): <<>> is undefined.
RECURSIVE FindCommit(_, _)
FindCommit(list, hash) ==
    IF list = <<>> THEN <<>>
    ELSE IF Head(list).commit_hash = hash THEN << Head(list) >>
    ELSE FindCommit(Tail(list), hash)

SelectDeployment(list, hash) ==
    IF hash = "" THEN (IF list = <<>> THEN <<>> ELSE << Head(list) >>)
    ELSE FindCommit(list, hash)

\* Faulty variant of FirstError: the last reported error instead of the first.
FirstErrorTakesLast(errors) == IF Len(errors) > 0 THEN errors[Len(errors)] ELSE "Unknown error!"

\* line 216: the error the message carries.
FirstError(errors) == IF Len(errors) > 0 THEN errors[1] ELSE "Unknown error!"

\* Faulty variant of MarksInProgress: the guard is dropped, every stage change marks.
MarksInProgressEveryChange(marked) == TRUE

\* line 62: the one-shot guard of the in_progress call.
MarksInProgress(marked) == ~marked

\* Faulty variant of IsFailedStatus: the status "failure" is not recognised.
IsFailedStatusOnlyFailed(status) == status = "failed"

\* line 68: the generic failure check.
IsFailedStatus(status) == status = "failed" \/ status = "failure"

\* line 132: the deploy-specific check.
IsDeployFinished(stage) == stage.name = "deploy" /\ stage.status \in {"success", "failed"}

\* Faulty variant of AliasUrl: the alias list is ignored.
AliasUrlIgnoresAliases(d) == d.url

\* line 135
AliasUrl(d) == IF Len(d.aliases) > 0 THEN d.aliases[1] ELSE d.url

\* line 142
SuccessOutput(d) == IF d.latest_stage.status = "success" THEN TRUE ELSE FALSE

\* line 144: the guard of the success notification.
SendsSuccessNotification(d, hook) == d.latest_stage.status = "success" /\ TRUE

\* line 71: the guard of the failure notification.
SendsFailureNotification(hook) == hook # ""

\* line 158
FinalState(stage) == IF stage.status = "success" THEN "success" ELSE "failure"

\* line 157
ReflectsFinalState(tok) == tok # ""

\* lines 235-238 (the branch name in the preview label is left out)
EnvironmentLabel(d) == IF d.environment = "production" THEN "Production" ELSE "Preview"

\* Faulty variant of PushesStatus: every call pushes its state.
PushesStatusAlways(stage) == TRUE

\* line 259: the guard of createDeploymentStatus.
PushesStatus(stage) == stage.name = "deploy" /\ stage.status \in {"success", "failed"}

\* Faulty variant of Last: nothing is cut off.
LastKeepsAll(seq, k) == seq

\* lines 116-122: the last 20 lines, code-fenced; lines are numbered 1..n.
Last(seq, k) == IF Len(seq) <= k THEN seq ELSE SubSeq(seq, Len(seq) - k + 1, Len(seq))
\* the code fence is the token "fence"
FormatLogs(lines) == << "fence" >> \o Last(lines, LogTail) \o << "fence" >>

\* getCloudflareLogs (lines 88-130): <<>> is the empty string.
getCloudflareLogs(outcome) ==
    IF outcome.kind = "data" /\ outcome.n > 0
    THEN FormatLogs([i \in 1..outcome.n |-> i])
    ELSE <<>>

\* updateDeployment (lines 230-273) on GitHub answering createOk / statusOk:
\* the new ghDeployment, the requests issued, and whether a request threw.
NewDeploymentId(calls) ==
    1 + Cardinality({ i \in 1..Len(calls) : calls[i].op = "createDeployment" /\ calls[i].ok })

\* Faulty variant of NeedsCreate: the cached record is not consulted.
NeedsCreateAlways(gh) == TRUE

\* line 246: !ghDeployment
NeedsCreate(gh) == gh = 0

\* lines 233-272: the body after the token check.
updateWithToken(tok, d, state, gh, calls, createOk, statusOk) ==
    LET create == [op |-> "createDeployment", state |-> "", deployment_id |-> 0,
                   environment |-> EnvironmentLabel(d), ok |-> createOk]
        gh1    == IF NeedsCreate(gh) THEN NewDeploymentId(calls) ELSE gh
        calls1 == IF NeedsCreate(gh) THEN Append(calls, create) ELSE calls
        status == [op |-> "createDeploymentStatus", state |-> state, deployment_id |-> gh1,
                   environment |-> EnvironmentLabel(d), ok |-> statusOk]
    IN  IF NeedsCreate(gh) /\ ~createOk
        THEN [gh |-> gh, calls |-> calls1, thrown |-> TRUE]
        ELSE IF PushesStatus(d.latest_stage)
        THEN [gh |-> gh1, calls |-> Append(calls1, status), thrown |-> ~statusOk]
        ELSE [gh |-> gh1, calls |-> calls1, thrown |-> FALSE]

\* Faulty variant of updateDeployment: a rejected request is caught and dropped.
updateDeploymentCatches(tok, d, state, gh, calls, createOk, statusOk) ==
    IF tok = "" THEN [gh |-> gh, calls |-> calls, thrown |-> FALSE]
    ELSE [updateWithToken(tok, d, state, gh, calls, createOk, statusOk) EXCEPT !.thrown = FALSE]

\* Faulty variant of updateDeployment: the token check of line 231 is missing.
updateDeploymentNoTokenCheck(tok, d, state, gh, calls, createOk, statusOk) ==
    updateWithToken(tok, d, state, gh, calls, createOk, statusOk)

\* lines 230-273
updateDeployment(tok, d, state, gh, calls, createOk, statusOk) ==
    IF tok = "" THEN [gh |-> gh, calls |-> calls, thrown |-> FALSE]
    ELSE updateWithToken(tok, d, state, gh, calls, createOk, statusOk)

\* One updateDeployment call as the run sees it.
UpdCall(d, state) == [state |-> state, stage |-> d.latest_stage]

\* ------------------------------------------------------------------- Init
\* Module initialisation (lines 9-12) and the inputs the process is started with.
Init ==
    /\ waiting = TRUE
    /\ ghDeployment = 0
    /\ markedAsInProgress = FALSE
    /\ \E a \in AuthInputs : apiToken = a[1] /\ accountEmail = a[2] /\ apiKey = a[3]
    /\ token \in {"", "ghp"}
    /\ commitHash \in {"", "c1"}
    /\ slackWebHook \in {"", "hook"}
    /\ pc = "start"
    /\ lastStage = ""
    /\ deployment = <<>>
    /\ pollLog = <<>>
    /\ apiErrors = <<>>
    /\ stageLog = <<>>
    /\ failedMsgs = <<>>
    /\ outputs = <<>>
    /\ slackSends = <<>>
    /\ updCalls = <<>>
    /\ ghCalls = <<>>

\* ---------------------------------------------------------------- actions
\* run(), lines 15-37: read the inputs, validate the auth inputs.
Start ==
    /\ pc = "start"
    /\ IF validateAuthInputs(apiToken, accountEmail, apiKey)
       THEN /\ pc' = "loop"
            /\ failedMsgs' = failedMsgs
       ELSE /\ pc' = "done"
            /\ failedMsgs' = Append(failedMsgs, [kind |-> "auth", detail |-> ""])
    /\ UNCHANGED << waiting, ghDeployment, markedAsInProgress, inputs, apiErrors, stageLog, lastStage,
                    deployment, pollLog, outputs, slackSends, updCalls, ghCalls >>

\* while (waiting), line 39: the loop ends when waiting is false.
LoopExit ==
    /\ pc = "loop"
    /\ ~waiting
    /\ pc' = "done"
    /\ UNCHANGED << waiting, ghDeployment, markedAsInProgress, inputs, apiErrors, stageLog, lastStage,
                    deployment, pollLog, failedMsgs, outputs, slackSends, updCalls, ghCalls >>

CanPoll == pc = "loop" /\ waiting /\ Len(pollLog) < MaxPolls

\* pollApi, lines 189-202: fetch throws; back in run() the result is undefined
\* (lines 44-47).
PollNetworkError ==
    /\ CanPoll
    /\ pollLog' = Append(pollLog, "network")
    /\ failedMsgs' = Append(failedMsgs, [kind |-> "network", detail |-> ""])
    /\ deployment' = <<>>
    /\ pc' = "loop"
    /\ UNCHANGED << waiting, ghDeployment, markedAsInProgress, inputs, apiErrors, stageLog, lastStage,
                    outputs, slackSends, updCalls, ghCalls >>

\* pollApi, lines 205-212: the body is no JSON.
PollParseError ==
    /\ CanPoll
    /\ pollLog' = Append(pollLog, "parse")
    /\ failedMsgs' = Append(failedMsgs, [kind |-> "parse", detail |-> ""])
    /\ deployment' = <<>>
    /\ pc' = "loop"
    /\ UNCHANGED << waiting, ghDeployment, markedAsInProgress, inputs, apiErrors, stageLog, lastStage,
                    outputs, slackSends, updCalls, ghCalls >>

\* pollApi, lines 214-219: the body reports success = false.
PollApiError ==
    /\ CanPoll
    /\ \E errors \in ErrorLists :
         /\ apiErrors' = errors
         /\ failedMsgs' = Append(failedMsgs, [kind |-> "api", detail |-> FirstError(errors)])
    /\ pollLog' = Append(pollLog, "apiError")
    /\ waiting' = FALSE
    /\ deployment' = <<>>
    /\ pc' = "loop"
    /\ UNCHANGED << ghDeployment, markedAsInProgress, inputs, lastStage, stageLog,
                    outputs, slackSends, updCalls, ghCalls >>

\* pollApi, lines 221-222, then run() lines 44-66 up to its next await.
PollResult ==
    /\ CanPoll
    /\ \E list \in ResultLists :
        LET found == SelectDeployment(list, commitHash) IN
        /\ deployment' = found
        /\ IF found = <<>>
           THEN /\ pollLog' = Append(pollLog, IF list = <<>> THEN "absent" ELSE "filtered")
                /\ pc' = "loop"
                /\ UNCHANGED << waiting, lastStage, stageLog, outputs, updCalls >>
           ELSE LET d == found[1] IN
                IF d.is_skipped = TRUE
                THEN /\ pollLog' = Append(pollLog, "skipped")
                     /\ waiting' = FALSE
                     /\ outputs' = Append(outputs, [name |-> "Deployment skipped", value |-> d.id])
                     /\ pc' = "done"
                     /\ UNCHANGED << lastStage, stageLog, updCalls >>
                ELSE /\ pollLog' = Append(pollLog, "stage")
                     /\ IF d.latest_stage.name # lastStage
                        THEN /\ lastStage' = d.latest_stage.name
                             /\ stageLog' = Append(stageLog, d.latest_stage.name)
                             /\ IF MarksInProgress(markedAsInProgress)
                                THEN /\ updCalls' = Append(updCalls, UpdCall(d, "in_progress"))
                                     /\ pc' = "inProgress"
                                ELSE /\ updCalls' = updCalls
                                     /\ pc' = "classify"
                        ELSE /\ pc' = "classify"
                             /\ UNCHANGED << lastStage, stageLog, updCalls >>
                     /\ UNCHANGED << waiting, outputs >>
    /\ UNCHANGED << ghDeployment, markedAsInProgress, inputs, apiErrors, failedMsgs,
                    slackSends, ghCalls >>

\* The deployment and stage the current iteration works on (lines 43, 56).
Cur == deployment[1]
latestStage == Cur.latest_stage

\* Faulty variant of Branch: the deploy check is evaluated before the failure check.
BranchDeployFirst(stage) ==
    IF IsDeployFinished(stage) THEN "deploy"
    ELSE IF IsFailedStatus(stage.status) THEN "failure"
    ELSE "none"

\* lines 68 and 132: which branch of the loop body a stage takes. The failure
\* check comes first and returns, so the deploy check only sees what it let pass.
Branch(stage) ==
    IF IsFailedStatus(stage.status) THEN "failure"
    ELSE IF IsDeployFinished(stage) THEN "deploy"
    ELSE "none"

\* The message of slack.send (lines 75 and 147): the parts that vary.
FailureMessage(d, logs) ==
    [kind |-> "failure", id |-> d.id, logs |-> logs, alias |-> "", url |-> "", settled |-> "pending"]
SuccessMessage(d) ==
    [kind |-> "success", id |-> d.id, logs |-> <<>>, alias |-> AliasUrl(d), url |-> d.url,
     settled |-> "pending"]

\* line 84
StepFailed(stage) == [kind |-> "step", detail |-> stage.name]

\* lines 138-142
DeployOutputs(d) ==
    << [name |-> "id", value |-> d.id],
       [name |-> "environment", value |-> d.environment],
       [name |-> "url", value |-> d.url],
       [name |-> "alias", value |-> AliasUrl(d)],
       [name |-> "success", value |-> SuccessOutput(d)] >>

\* line 63 resumes: updateDeployment(token, deployment, "in_progress") settles,
\* then line 64. A rejected request rejects run()'s promise.
MarkInProgress ==
    /\ pc = "inProgress"
    /\ \E createOk \in BOOLEAN, statusOk \in BOOLEAN :
        LET r == updateDeployment(token, Cur, "in_progress", ghDeployment, ghCalls,
                                  createOk, statusOk) IN
        /\ ghDeployment' = r.gh
        /\ ghCalls' = r.calls
        /\ IF r.thrown
           THEN /\ pc' = "aborted"
                /\ markedAsInProgress' = markedAsInProgress
           ELSE /\ pc' = "classify"
                /\ markedAsInProgress' = TRUE
    /\ UNCHANGED << waiting, inputs, apiErrors, stageLog, lastStage, deployment, pollLog, failedMsgs,
                    outputs, slackSends, updCalls >>

\* lines 68-72 and 84-85: the status is failed or failure. With a webhook the
\* run awaits the logs; without one it marks the run failed and calls
\* updateDeployment.
StageFailed ==
    /\ pc = "classify"
    /\ Branch(latestStage) = "failure"
    /\ waiting' = FALSE
    /\ IF SendsFailureNotification(slackWebHook)
       THEN /\ pc' = "logs"
            /\ UNCHANGED << failedMsgs, updCalls >>
       ELSE /\ failedMsgs' = Append(failedMsgs, StepFailed(latestStage))
            /\ updCalls' = Append(updCalls, UpdCall(Cur, "failure"))
            /\ pc' = "updFailure"
    /\ UNCHANGED << ghDeployment, markedAsInProgress, inputs, apiErrors, stageLog, lastStage, deployment,
                    pollLog, outputs, slackSends, ghCalls >>

\* lines 72-85: getCloudflareLogs settles, the failure message is sent without
\* being awaited, the run is marked failed and updateDeployment is called.
FetchLogs ==
    /\ pc = "logs"
    /\ \E outcome \in LogOutcomes :
        slackSends' = Append(slackSends, FailureMessage(Cur, getCloudflareLogs(outcome)))
    /\ failedMsgs' = Append(failedMsgs, StepFailed(latestStage))
    /\ updCalls' = Append(updCalls, UpdCall(Cur, "failure"))
    /\ pc' = "updFailure"
    /\ UNCHANGED << waiting, ghDeployment, markedAsInProgress, inputs, apiErrors, stageLog, lastStage,
                    deployment, pollLog, outputs, ghCalls >>

\* lines 85-86: updateDeployment(token, deployment, "failure") settles; return.
ReflectFailure ==
    /\ pc = "updFailure"
    /\ \E createOk \in BOOLEAN, statusOk \in BOOLEAN :
        LET r == updateDeployment(token, Cur, updCalls[Len(updCalls)].state, ghDeployment,
                                  ghCalls, createOk, statusOk) IN
        /\ ghDeployment' = r.gh
        /\ ghCalls' = r.calls
        /\ pc' = IF r.thrown THEN "aborted" ELSE "done"
    /\ UNCHANGED << waiting, markedAsInProgress, inputs, apiErrors, stageLog, lastStage, deployment, pollLog,
                    failedMsgs, outputs, slackSends, updCalls >>

\* Faulty variant of WaitingAfterDeploy: the loop flag is left set.
WaitingAfterDeployKept == TRUE

\* line 133: the loop flag after the deploy stage finished; this branch does
\* not return, the flag alone ends the loop.
WaitingAfterDeploy == FALSE

\* lines 132-159: the deploy stage finished. Outputs, the success message
\* (not awaited), and updateDeployment when a token is given.
DeployFinished ==
    /\ pc = "classify"
    /\ Branch(latestStage) = "deploy"
    /\ waiting' = WaitingAfterDeploy
    /\ outputs' = outputs \o DeployOutputs(Cur)
    /\ slackSends' = IF SendsSuccessNotification(Cur, slackWebHook)
                     THEN Append(slackSends, SuccessMessage(Cur))
                     ELSE slackSends
    /\ IF ReflectsFinalState(token)
       THEN /\ updCalls' = Append(updCalls, UpdCall(Cur, FinalState(latestStage)))
            /\ pc' = "updFinal"
       ELSE /\ updCalls' = updCalls
            /\ pc' = "loop"
    /\ UNCHANGED << ghDeployment, markedAsInProgress, inputs, apiErrors, stageLog, lastStage, deployment,
                    pollLog, failedMsgs, ghCalls >>

\* line 158 resumes: updateDeployment settles; back to the loop head.
ReflectFinal ==
    /\ pc = "updFinal"
    /\ \E createOk \in BOOLEAN, statusOk \in BOOLEAN :
        LET r == updateDeployment(token, Cur, updCalls[Len(updCalls)].state, ghDeployment,
                                  ghCalls, createOk, statusOk) IN
        /\ ghDeployment' = r.gh
        /\ ghCalls' = r.calls
        /\ pc' = IF r.thrown THEN "aborted" ELSE "loop"
    /\ UNCHANGED << waiting, markedAsInProgress, inputs, apiErrors, stageLog, lastStage, deployment, pollLog,
                    failedMsgs, outputs, slackSends, updCalls >>

\* Neither check matches: the next iteration (line 161); the block-scoped
\* deployment of this iteration is gone.
StageContinues ==
    /\ pc = "classify"
    /\ Branch(latestStage) = "none"
    /\ pc' = "loop"
    /\ deployment' = <<>>
    /\ UNCHANGED << waiting, ghDeployment, markedAsInProgress, inputs, apiErrors, stageLog, lastStage,
                    pollLog, failedMsgs, outputs, slackSends, updCalls, ghCalls >>

\* Faulty variant of Settle: the send is awaited without a catch, so a
\* rejected delivery marks the run failed and rejects run().
SettleAwaited(i, how) ==
    /\ pc \notin {"start"}
    /\ slackSends[i].settled = "pending"
    /\ slackSends' = [slackSends EXCEPT ![i].settled = how]
    /\ failedMsgs' = IF how = "rejected"
                     THEN Append(failedMsgs, [kind |-> "slack", detail |-> ""])
                     ELSE failedMsgs
    /\ pc' = IF how = "rejected" THEN "aborted" ELSE pc
    /\ UNCHANGED << waiting, ghDeployment, markedAsInProgress, inputs, apiErrors, stageLog,
                    lastStage, deployment, pollLog, outputs, updCalls, ghCalls >>

\* A pending slack.send settles while run() is suspended at an await or has
\* returned: .then (lines 77-79, 149-151) or .catch (lines 80-82, 152-154) logs.
Settle(i, how) ==
    /\ pc \notin {"start"}
    /\ slackSends[i].settled = "pending"
    /\ slackSends' = [slackSends EXCEPT ![i].settled = how]
    /\ UNCHANGED << waiting, ghDeployment, markedAsInProgress, inputs, apiErrors, stageLog, pc, lastStage,
                    deployment, pollLog, failedMsgs, outputs, updCalls, ghCalls >>

SlackDelivered == \E i \in 1..Len(slackSends) : Settle(i, "delivered")

SlackRejected == \E i \in 1..Len(slackSends) : Settle(i, "rejected")

Next ==
    \/ Start
    \/ LoopExit
    \/ PollNetworkError
    \/ PollParseError
    \/ PollApiError
    \/ PollResult
    \/ MarkInProgress
    \/ StageFailed
    \/ FetchLogs
    \/ ReflectFailure
    \/ DeployFinished
    \/ ReflectFinal
    \/ StageContinues
    \/ SlackDelivered
    \/ SlackRejected

Spec == Init /\ [][Next]_vars

\* ------------------------------------------------------------ observations
NumUpd(state) == Cardinality({ i \in 1..Len(updCalls) : updCalls[i].state = state })
StatusPushes(state) ==
    { i \in 1..Len(ghCalls) :
        ghCalls[i].op = "createDeploymentStatus" /\ ghCalls[i].state = state }
AllStatusPushes == { i \in 1..Len(ghCalls) : ghCalls[i].op = "createDeploymentStatus" }
Sends(kind) == { i \in 1..Len(slackSends) : slackSends[i].kind = kind }
OutputValue(n) == outputs[CHOOSE i \in 1..Len(outputs) : outputs[i].name = n].value
OutputNames == { outputs[i].name : i \in 1..Len(outputs) }
DeployOutputNames == {"id", "environment", "url", "alias", "success"}
LastOf(seq) == seq[Len(seq)]
LastPoll(kind) == pollLog # <<>> /\ LastOf(pollLog) = kind

\* The iteration tracks the stage of a deployment that is not skipped.
Tracking == deployment # <<>> /\ ~Cur.is_skipped
\* run() was rejected inside the in_progress call of line 63.
AbortedInProgress == pc = "aborted" /\ LastOf(updCalls).state = "in_progress"
\* run() has reached line 68 with the tracked deployment.
PastStageChange == pc \notin {"inProgress", "classify"} /\ ~AbortedInProgress

\* -------------------------------------------------------------- properties
\* C1: over every sequence of poll results, updateDeployment is called with
\* state in_progress exactly once when the observed stage name has changed
\* one or more times, and never before; the one call is made on the first
\* change (it carries the first stage name logged), no later change repeats it.
C1_InProgressOnce ==
    /\ NumUpd("in_progress") = (IF stageLog = <<>> THEN 0 ELSE 1)
    /\ stageLog # <<>> =>
         /\ updCalls[1].state = "in_progress"
         /\ updCalls[1].stage.name = stageLog[1]

\* C1 witness: a second stage-name change has been observed.
C1_Witness == Len(stageLog) >= 2 /\ NumUpd("in_progress") = 1

DeployFailedObserved ==
    Tracking /\ latestStage = [name |-> "deploy", status |-> "failed"]

\* C2: a tracked deployment at stage deploy with status failed never takes
\* the deploy-success path (no success notification, no "success" state
\* requested or pushed), and a run that returns from it has taken the failure
\* path: loop halted, one failure notification exactly when a webhook is
\* configured, run marked failed on step deploy, updateDeployment called with
\* "failure" and, with a token, the failure status pushed.
C2_FailedDeployTakesFailurePath ==
    DeployFailedObserved =>
        /\ Sends("success") = {}
        /\ NumUpd("success") = 0
        /\ StatusPushes("success") = {}
        /\ pc = "done" =>
             /\ ~waiting
             /\ Cardinality(Sends("failure")) = (IF slackWebHook # "" THEN 1 ELSE 0)
             /\ failedMsgs # <<>>
             /\ LastOf(failedMsgs) = [kind |-> "step", detail |-> "deploy"]
             /\ LastOf(updCalls).state = "failure"
             /\ token # "" => StatusPushes("failure") # {}

\* C2 witness: the failure path ran to its end with webhook and token set.
C2_Witness ==
    DeployFailedObserved /\ pc = "done" /\ slackWebHook # "" /\ token # ""

\* C3 (as claimed): a run that returns from a stage whose status is failed or
\* failure, whatever the stage name, has halted the loop, pushed a "failure"
\* status when a token is supplied, sent a failure notification when a
\* webhook is configured, and marked the run failed with the stage name.
C3_FailureAlwaysPushed ==
    (Tracking /\ latestStage.status \in {"failed", "failure"} /\ pc = "done") =>
        /\ ~waiting
        /\ token # "" => StatusPushes("failure") # {}
        /\ slackWebHook # "" => Sends("failure") # {}
        /\ failedMsgs # <<>>
        /\ LastOf(failedMsgs) = [kind |-> "step", detail |-> latestStage.name]

\* C4 (as claimed): a run whose poll returned a skipped deployment halts on
\* that poll, has pushed no status, has sent no notification and is not
\* marked failed, whatever polls preceded it.
C4_SkippedEndsClean ==
    LastPoll("skipped") =>
        /\ pc = "done"
        /\ ~waiting
        /\ AllStatusPushes = {}
        /\ slackSends = <<>>
        /\ failedMsgs = <<>>

\* C5 (as claimed): a poll that fails with a network error or an unparseable
\* body marks the run failed and is the last poll of the run.
C5_PollErrorEndsPolling ==
    \A i \in 1..Len(pollLog) :
        pollLog[i] \in {"network", "parse"} =>
            /\ failedMsgs # <<>>
            /\ i = Len(pollLog)

\* C6: a poll whose response reports success = false is the last poll of the
\* run: the loop is halted, the run is marked failed with the first reported
\* error (or "Unknown error!" for an empty error list), and the run has
\* produced no status push, no failure or final updateDeployment call, no
\* notification and no output.
C6_ApiErrorIsFatal ==
    /\ \A i \in 1..Len(pollLog) : pollLog[i] = "apiError" => i = Len(pollLog)
    /\ LastPoll("apiError") =>
         /\ ~waiting
         /\ pc \in {"loop", "done"}
         /\ failedMsgs # <<>>
         /\ LastOf(failedMsgs) =
              [kind |-> "api",
               detail |-> IF apiErrors = <<>> THEN "Unknown error!" ELSE apiErrors[1]]
         /\ AllStatusPushes = {}
         /\ NumUpd("failure") = 0 /\ NumUpd("success") = 0
         /\ slackSends = <<>>
         /\ outputs = <<>>

\* C6 witness: the error envelope with two errors arrived while another poll
\* was still allowed, and the run has returned.
C6_Witness ==
    /\ LastPoll("apiError")
    /\ Len(pollLog) < MaxPolls
    /\ Len(apiErrors) = 2
    /\ pc = "done"

\* C7 (as claimed): with slackWebHook empty no slack.send is issued.
C7_NoWebhookNoSend == slackWebHook = "" => slackSends = <<>>

\* C8: with githubToken empty no request to the GitHub API is ever issued
\* (no createDeployment, no createDeploymentStatus) and no deployment record
\* is held.
C8_NoTokenNoGithubCall == token = "" => (ghCalls = <<>> /\ ghDeployment = 0)

\* C8 witness: without a token the run made the in_progress and the failure
\* call of updateDeployment and returned.
C8_Witness ==
    token = "" /\ NumUpd("in_progress") = 1 /\ NumUpd("failure") = 1 /\ pc = "done"

DeploySucceeded ==
    /\ Tracking
    /\ latestStage = [name |-> "deploy", status |-> "success"]
    /\ PastStageChange

\* C9: once the run has handled a tracked deployment at stage deploy with
\* status success, exactly the outputs id, environment, url, alias and success
\* are published, with the deployment's id, environment and url, success =
\* true, and alias = aliases[0] when aliases is non-empty, otherwise url.
C9_SuccessOutputs ==
    DeploySucceeded =>
        /\ Len(outputs) = Cardinality(DeployOutputNames)
        /\ OutputNames = DeployOutputNames
        /\ OutputValue("id") = Cur.id
        /\ OutputValue("environment") = Cur.environment
        /\ OutputValue("url") = Cur.url
        /\ OutputValue("success") = TRUE
        /\ OutputValue("alias") = (IF Cur.aliases # <<>> THEN Cur.aliases[1] ELSE Cur.url)

\* C9 witness: a finished run on a successful deploy that has aliases.
C9_Witness == DeploySucceeded /\ Cur.aliases # <<>> /\ pc = "done"

\* C10 (as claimed): a run that returns from stage deploy with status success
\* or failed has published id, environment, url, alias and success, success
\* being true for status success and false for status failed.
C10_DeployEndPublishes ==
    (Tracking /\ latestStage.name = "deploy" /\ latestStage.status \in {"success", "failed"}
        /\ pc = "done") =>
        /\ DeployOutputNames \subseteq OutputNames
        /\ OutputValue("success") = (latestStage.status = "success")

\* The deployment the commit filter is to return: the entry at the least
\* index whose commit hash is the wanted one; without a wanted hash, entry 1.
Matching(list, hash) == { i \in 1..Len(list) : list[i].commit_hash = hash }
FirstMatch(list, hash) ==
    IF hash = ""
    THEN (IF Len(list) = 0 THEN <<>> ELSE << list[1] >>)
    ELSE IF Matching(list, hash) = {} THEN <<>>
    ELSE << list[CHOOSE i \in Matching(list, hash) : \A j \in Matching(list, hash) : i <= j] >>

\* A poll step whose result is undefined without an error.
WaitingStep == pollLog' # pollLog /\ LastOf(pollLog') \in {"absent", "filtered"}

\* C11: for every deployment list, pollApi returns the first entry whose
\* commit hash equals commitHash (undefined when none does), and the newest
\* entry when commitHash is empty; the run never tracks a deployment of
\* another commit; a non-empty list yields undefined only under a commit
\* filter; and a poll with an undefined result only waits: lastStage,
\* markedAsInProgress, ghDeployment, the updateDeployment calls, the GitHub
\* requests, the notifications, the outputs and the failure marks are
\* unchanged, and the run is back at the loop head still waiting.
C11_CommitFilter ==
    /\ [](pc = "start" =>
            \A list \in ResultLists :
                SelectDeployment(list, commitHash) = FirstMatch(list, commitHash))
    /\ []((commitHash # "" /\ deployment # <<>>) => Cur.commit_hash = commitHash)
    /\ [](\A i \in 1..Len(pollLog) : pollLog[i] = "filtered" => commitHash # "")
    /\ [][WaitingStep =>
            /\ UNCHANGED << lastStage, stageLog, markedAsInProgress, ghDeployment, updCalls,
                            ghCalls, slackSends, outputs, failedMsgs, waiting >>
            /\ deployment' = <<>>
            /\ waiting'
            /\ pc' = "loop"]_vars

\* C11 witness: under a commit filter two polls in a row listed deployments
\* of other commits only.
C11_Witness ==
    /\ commitHash # ""
    /\ Len(pollLog) = 2
    /\ pollLog[1] = "filtered" /\ pollLog[2] = "filtered"
    /\ pc = "loop" /\ waiting

AuthMissing == apiToken = "" /\ ~(accountEmail # "" /\ apiKey # "")
AuthConflicting == apiToken # "" /\ accountEmail # "" /\ apiKey # ""
AuthFailure == [kind |-> "auth", detail |-> ""]
MarkedAuthFailure == \E i \in 1..Len(failedMsgs) : failedMsgs[i] = AuthFailure

SettleStep == Len(slackSends') = Len(slackSends) /\ slackSends' # slackSends

\* C13: a slack.send is launched and not awaited: when it settles, delivered
\* or rejected, at any await of run() or after run() returned, nothing of the
\* main flow changes (no failure mark, no change of pc, of the loop flag, of
\* the updateDeployment calls, GitHub requests or outputs); the steps after
\* the send have run with it: with the failure message the run is marked
\* failed on the stage and updateDeployment(.., "failure") is called, with the
\* success message and a token the final updateDeployment is called; and the
\* pending updateDeployment can always resume, whatever the send's state.
C13_FireAndForget ==
    /\ [][SettleStep =>
            UNCHANGED << pc, waiting, failedMsgs, updCalls, ghCalls, ghDeployment, outputs,
                         pollLog, deployment, lastStage, stageLog, markedAsInProgress >>]_vars
    /\ [](Sends("failure") # {} =>
            /\ failedMsgs # <<>>
            /\ LastOf(failedMsgs) = StepFailed(latestStage)
            /\ updCalls # <<>>
            /\ LastOf(updCalls) = UpdCall(Cur, "failure"))
    /\ []((Sends("success") # {} /\ token # "") =>
            /\ updCalls # <<>>
            /\ LastOf(updCalls) = UpdCall(Cur, "success"))
    /\ [](pc = "updFailure" => ENABLED ReflectFailure)
    /\ [](pc = "updFinal" => ENABLED ReflectFinal)

\* C13 witness: the success message was rejected, and the run returned with
\* the success status pushed and no failure mark.
C13_Witness ==
    /\ \E i \in Sends("success") : slackSends[i].settled = "rejected"
    /\ pc = "done"
    /\ StatusPushes("success") # {}
    /\ failedMsgs = <<>>

Creates == { i \in 1..Len(ghCalls) : ghCalls[i].op = "createDeployment" }
\* run() is suspended in an updateDeployment call.
InUpdate == pc \in {"inProgress", "updFailure", "updFinal"}
\* The updateDeployment calls that have settled.
SettledUpdates == Len(updCalls) - (IF InUpdate THEN 1 ELSE 0)

\* C14: at most one createDeployment request is issued per run; with a token
\* it is the first GitHub request, issued by the first updateDeployment call
\* that settles, and its record is held in ghDeployment from then on; every
\* createDeploymentStatus request of the run, of that call and of every later
\* one, carries that record's id.
C14_OneDeploymentRecord ==
    /\ Cardinality(Creates) <= 1
    /\ Creates \subseteq {1}
    /\ (token # "" /\ SettledUpdates >= 1) => Creates = {1}
    /\ ghDeployment = (IF \E i \in Creates : ghCalls[i].ok THEN 1 ELSE 0)
    /\ \A i \in AllStatusPushes : ghCalls[i].deployment_id = 1 /\ ghDeployment = 1

\* C14 witness: the record created by the in_progress call of an earlier poll
\* was reused by the final status update of a later poll.
C14_Witness ==
    /\ Len(pollLog) = 2
    /\ Len(updCalls) = 2
    /\ pc = "done"
    /\ Cardinality(Creates) = 1
    /\ StatusPushes("success") # {}
    /\ StatusPushes("in_progress") = {}

IsStatusCall(c) == c.op = "createDeploymentStatus"
\* An updateDeployment call whose deployment is at the finished deploy stage.
AtFinishedDeploy(u) == u.stage.name = "deploy" /\ u.stage.status \in {"success", "failed"}
StatesOf(seq) == [i \in 1..Len(seq) |-> seq[i].state]
PushedStates == StatesOf(SelectSeq(ghCalls, IsStatusCall))
DueStates == StatesOf(SelectSeq(updCalls, AtFinishedDeploy))
IsPrefix(a, b) == Len(a) <= Len(b) /\ \A i \in 1..Len(a) : a[i] = b[i]

\* C15: the createDeploymentStatus requests of a run are, in order, the
\* states requested by the updateDeployment calls whose deployment is at
\* stage deploy with status success or failed: a call for any other stage or
\* status, whatever state it requests, pushes nothing and at most creates
\* the record. With a token, once every call has settled without a rejected
\* request, each such call has pushed its state.
C15_StatusOnlyAtFinishedDeploy ==
    /\ IsPrefix(PushedStates, DueStates)
    /\ \A i \in 1..Len(ghCalls) : ~IsStatusCall(ghCalls[i]) => ghCalls[i].op = "createDeployment"
    /\ (token # "" /\ ~InUpdate /\ pc # "aborted") => PushedStates = DueStates

\* C15 witness: with a token, updateDeployment was called with "in_progress"
\* and with "failure" for a stage that is not the finished deploy stage, the
\* record was created and no status was pushed.
C15_Witness ==
    /\ token # ""
    /\ pc = "done"
    /\ NumUpd("failure") = 1
    /\ DueStates = <<>>
    /\ Creates = {1}
    /\ AllStatusPushes = {}

RejectedRequests == { i \in 1..Len(ghCalls) : ~ghCalls[i].ok }

\* C16: a createDeployment or createDeploymentStatus request that fails is
\* not caught: it is the last GitHub request of the run, run() is rejected at
\* that point (and only then), and from there on no poll, updateDeployment
\* call, GitHub request, output or failure mark follows and no run state
\* changes (markedAsInProgress and ghDeployment stay as they were).
C16_GithubFailureAborts ==
    /\ [](RejectedRequests \subseteq {Len(ghCalls)})
    /\ [](RejectedRequests # {} <=> pc = "aborted")
    /\ [][pc = "aborted" =>
            /\ pc' = "aborted"
            /\ UNCHANGED << pollLog, ghCalls, updCalls, outputs, failedMsgs, waiting, deployment,
                            lastStage, stageLog, markedAsInProgress, ghDeployment >>]_vars

\* C16 witness: createDeployment failed inside the in_progress call while the
\* loop flag was still set and a further poll was still allowed.
C16_Witness ==
    /\ pc = "aborted"
    /\ waiting
    /\ Len(pollLog) < MaxPolls
    /\ Len(ghCalls) = 1
    /\ ghCalls[1].op = "createDeployment"
    /\ ~markedAsInProgress

Min(a, b) == IF a <= b THEN a ELSE b
\* What the log fetch is to return for an outcome: nothing for every failure,
\* otherwise the fence, the last LogTail of the lines 1..n, the fence.
LogsAsSpecified(outcome, r) ==
    IF outcome.kind # "data"
    THEN r = <<>>
    ELSE LET kept == Min(outcome.n, LogTail) IN
         /\ Len(r) = kept + 2
         /\ r[1] = "fence"
         /\ r[Len(r)] = "fence"
         /\ \A k \in 1..kept : r[k + 1] = outcome.n - kept + k

\* C17: for every outcome of the logs request, getCloudflareLogs returns the
\* empty string on a failure (thrown error, non-success status, unparseable
\* body, body without log lines) and the last 20 lines at most, code-fenced,
\* otherwise; it never rejects: the step that leaves the log fetch always
\* goes on with the failure path, sending the one failure message with those
\* logs, marking the run failed on the stage and calling updateDeployment with
\* "failure"; every failure message carries no logs or at most 20 fenced lines.
C17_LogFetchNeverRaises ==
    /\ [](pc = "logs" =>
            /\ \A outcome \in LogOutcomes : LogsAsSpecified(outcome, getCloudflareLogs(outcome))
            /\ ENABLED FetchLogs)
    /\ [](\A i \in Sends("failure") :
            \/ slackSends[i].logs = <<>>
            \/ /\ Len(slackSends[i].logs) <= LogTail + 2
               /\ slackSends[i].logs[1] = "fence"
               /\ slackSends[i].logs[Len(slackSends[i].logs)] = "fence")
    /\ [][(pc = "logs" /\ pc' # "logs") =>
            /\ pc' = "updFailure"
            /\ Len(slackSends') = Len(slackSends) + 1
            /\ LastOf(slackSends').kind = "failure"
            /\ \E outcome \in LogOutcomes :
                 LogsAsSpecified(outcome, LastOf(slackSends').logs)
            /\ failedMsgs' = Append(failedMsgs, StepFailed(latestStage))
            /\ updCalls' = Append(updCalls, UpdCall(Cur, "failure"))]_vars

\* C17 witness: the log fetch failed, the failure message went out without
\* logs, and the run was marked failed and returned.
C17_Witness ==
    /\ \E i \in Sends("failure") : slackSends[i].logs = <<>>
    /\ pc = "done"
    /\ failedMsgs # <<>>
    /\ NumUpd("failure") = 1

\* The deployment of the current iteration is a terminal observation.
TerminalObserved ==
    /\ deployment # <<>>
    /\ \/ Cur.is_skipped
       \/ latestStage.status \in {"failed", "failure"}
       \/ latestStage = [name |-> "deploy", status |-> "success"]
PollStep == pollLog' # pollLog

\* C18: once a poll has observed is_skipped, a stage status failed or
\* failure, or deploy with status success, that observation stays the run's
\* last one and no poll step follows; none follows a response with success =
\* false either. Only there: the loop flag is cleared only after such an
\* observation; after an absent result the run is back at the loop head still
\* waiting; the iteration of a non-terminal stage, when it ends, ends at the
\* loop head still waiting (an in_progress call whose GitHub request is
\* rejected ends the run instead, C16); and at the loop head with the flag
\* set a poll is possible whenever the cap MaxPolls is not reached.
C18_StopsAtTerminalOnly ==
    /\ [][TerminalObserved => (~PollStep /\ deployment' = deployment)]_vars
    /\ [][LastPoll("apiError") => ~PollStep]_vars
    /\ [](~waiting => (TerminalObserved \/ LastPoll("apiError")))
    /\ []((pc = "loop" /\ (LastPoll("absent") \/ LastPoll("filtered"))) => waiting)
    /\ [][(pc = "classify" /\ pc' # pc /\ ~TerminalObserved) => (pc' = "loop" /\ waiting')]_vars
    /\ []((pc = "loop" /\ waiting /\ Len(pollLog) < MaxPolls) => ENABLED PollResult)

\* C18 witness: a poll followed a non-terminal stage, observed a terminal
\* one, and the run returned.
C18_Witness ==
    /\ Len(pollLog) = 2
    /\ pollLog[1] = "stage"
    /\ TerminalObserved
    /\ ~Cur.is_skipped
    /\ pc = "done"
    /\ ~waiting

\* C19: over every sequence of poll results a run issues at most one
\* slack.send: one failure message, or one success message, or none; never
\* both kinds and never one kind twice.
C19_AtMostOneNotification ==
    /\ Len(slackSends) <= 1
    /\ Cardinality(Sends("failure")) + Cardinality(Sends("success")) = Len(slackSends)

\* C19 witness: the run sent its one message after an earlier poll and
\* returned.
C19_Witness == Len(slackSends) = 1 /\ Len(pollLog) = 2 /\ pc = "done"

\* C20 (as claimed): a run that has published the output success = true has
\* not been marked failed at any point.
C20_SuccessOutputNotFailed ==
    (\E i \in 1..Len(outputs) : outputs[i].name = "success" /\ outputs[i].value = TRUE)
        => failedMsgs = <<>>

====
